---------------------------- MODULE Spec2Model ----------------------------
(***************************************************************************)
(* A model of the validation core of vulkano:                              *)
(*   - the GPU lock of an AttachmentImage and its AttachmentImageAccess    *)
(*     wrappers (image/attachment.rs);                                     *)
(*   - the command-buffer builder layers DeviceCheckLayer and              *)
(*     QueueTyCheckLayer (command_buffer/cb/device_check.rs,               *)
(*     command_buffer/cb/queue_ty_check.rs).                               *)
(* Each component has its own specification (LockSpec, ChainSpec); the     *)
(* variables of the other component stay at their idle value.              *)
(***************************************************************************)
EXTENDS Integers, Sequences, FiniteSets, TLC

(***************************************************************************)
(* Bounds of the model.                                                    *)
(***************************************************************************)
\* Number of AttachmentImageAccess wrappers that can be made over the image.
MaxWrappers == 3
\* Number of try_gpu_lock calls that can be started on one wrapper.
MaxCalls == 2
\* The gpu_lock counter is an AtomicUsize: arithmetic on it wraps.  The model
\* keeps the wrap-around with a small modulus in place of 2^64.
UsizeModulus == 5
\* Number of commands that can be added to one builder chain.
MaxCmds == 2
\* Largest size of a buffer, in bytes.
MaxBufSize == 4
\* Largest size of one element of a format, in bytes.
MaxFormatSize == 2
\* Largest value of the device limit max_texel_buffer_elements.
MaxLimit == 2
\* Largest number of owners (Arc clones) of one BufferView.
MaxOwners == 2

Wrappers == 1 .. MaxWrappers

VARIABLES
    \* ---- image/attachment.rs ----
    gpu_lock,        \* AttachmentImage::gpu_lock (AtomicUsize)
    wstate,          \* wrapper -> "none" | "live" | "dropped"
    already_locked,  \* AttachmentImageAccess::already_locked (AtomicBool)
    pending,         \* wrapper -> calls of try_gpu_lock between the swap and the compare_and_swap
    calls,           \* wrapper -> number of try_gpu_lock calls started on it
    ret_true,        \* wrapper -> number of its try_gpu_lock calls that returned true
    ret_false,       \* wrapper -> number of its try_gpu_lock calls that returned false
    incs,            \* wrapper -> number of times one of its calls incremented gpu_lock
    cas_seen,        \* wrapper -> value of gpu_lock read by its last compare_and_swap, or -1 when none
    assert_failed,   \* a debug_assert!(prev_val >= 1) of Drop saw prev_val = 0
    \* ---- command_buffer/cb ----
    layers,          \* the chain, outermost layer first
    inner_device,    \* device of the innermost (raw) builder
    recorded,        \* commands received by the innermost builder, in order
    chain_status,    \* "idle" | "building" | "aborted" | "built" | "unwrapped"
    last_add,        \* the last add: the command, the chain it was added to, the number of
                     \* commands recorded before it and the layer that aborted (0: none)
    build_result,    \* what build() returned, "none" before
    inner_result,    \* what build() of the innermost builder returned, "none" before
    ctor_layers,     \* the layers as their constructors built them
    receiver_uses,   \* number of add / build / into_inner calls the current builder
                     \* value has been the receiver of
    \* ---- buffer/view.rs ----
    bv_in,           \* the arguments of the creation and the state of the device
    bv_pc,           \* position in BufferView::unchecked, "idle" when no creation runs
    bv_format_props, \* the local format_props (bufferFeatures), valid once queried
    bv_native,       \* native calls made so far, in order
    bv_native_result,\* what CreateBufferView returned, "none" when not called
    bv_result,       \* what the creation returned, "none" before
    bv_view,         \* the BufferView created, NoView when none
    bv_owners,       \* number of Arc owners of the view
    bv_checks,       \* the steps of the creation that ran, in order
    \* ---- pipeline/compute_pipeline.rs ----
    cp_in,           \* the shader's layout, the layout built from it, the driver's answers
    cp_pc,           \* position in ComputePipeline::new, "idle" when no creation runs
    cp_layout,       \* the local pipeline_layout: "none" | "live" | "destroyed"
    cp_native,       \* native calls made so far, in order
    cp_native_result,\* what CreateComputePipelines returned, "none" when not called
    cp_result,       \* what the creation returned, "none" before
    cp_owners,       \* number of owners of the ComputePipeline
    \* ---- image/attachment.rs, AttachmentImage::new_impl ----
    img_in,          \* the constructor called, its arguments and the driver's answers
    img_pc,          \* position in new_impl, "idle" when no creation runs
    img_live,        \* the sub-objects of this attempt that exist
    img_native,      \* creations and releases of sub-objects so far, in order
    img_result,      \* what the creation returned, "none" before
    img_obj,         \* the AttachmentImage created, NoImage when none
    \* ---- the device ----
    dev_holders,     \* who holds an Arc<Device>; the device lives while someone does
    destroy_log      \* the native destroy calls: the call and whether the device was alive

lock_vars == <<gpu_lock, wstate, already_locked, pending, calls, ret_true, ret_false,
               incs, cas_seen, assert_failed>>
chain_vars == <<layers, inner_device, recorded, chain_status, last_add, build_result,
                inner_result, ctor_layers, receiver_uses>>
view_vars == <<bv_in, bv_pc, bv_format_props, bv_native, bv_native_result, bv_result,
               bv_view, bv_owners, bv_checks>>
pipe_vars == <<cp_in, cp_pc, cp_layout, cp_native, cp_native_result, cp_result, cp_owners>>
img_vars == <<img_in, img_pc, img_live, img_native, img_result, img_obj>>
dev_vars == <<dev_holders, destroy_log>>
vars == <<lock_vars, chain_vars, view_vars, pipe_vars, img_vars, dev_vars>>

(***************************************************************************)
(* image/attachment.rs: the atomic operations                              *)
(***************************************************************************)
\* AtomicBool::swap(true): returns the previous value, stores true.
LatchSwapLoadOnly(latch) == [prev |-> latch, now |-> latch]
LatchSwap(latch) == [prev |-> latch, now |-> TRUE]

\* The early return of try_gpu_lock: `if swap(..) == true { return false; }`.
LatchGateOpen(prev) == FALSE
LatchGate(prev) == prev = TRUE

\* AtomicUsize::compare_and_swap(0, 1): returns the previous value, stores 1
\* only when the previous value is 0.
GpuLockCas(cur) == [prev |-> cur, now |-> IF cur = 0 THEN 1 ELSE cur]

\* AtomicUsize::fetch_sub(1): returns the previous value, wraps below 0.
GpuLockFetchSub(cur) == [prev |-> cur, now |-> (cur + UsizeModulus - 1) % UsizeModulus]

(***************************************************************************)
(* image/attachment.rs: the operations                                     *)
(***************************************************************************)
LockInit ==
    /\ gpu_lock = 0
    /\ wstate = [w \in Wrappers |-> "none"]
    /\ already_locked = [w \in Wrappers |-> FALSE]
    /\ pending = [w \in Wrappers |-> 0]
    /\ calls = [w \in Wrappers |-> 0]
    /\ ret_true = [w \in Wrappers |-> 0]
    /\ ret_false = [w \in Wrappers |-> 0]
    /\ incs = [w \in Wrappers |-> 0]
    /\ cas_seen = [w \in Wrappers |-> -1]
    /\ assert_failed = FALSE

\* Image::access / ImageView::access: a new wrapper with the latch unset.
Access(w) ==
    /\ wstate[w] = "none"
    /\ wstate' = [wstate EXCEPT ![w] = "live"]
    /\ already_locked' = [already_locked EXCEPT ![w] = FALSE]
    /\ UNCHANGED <<gpu_lock, pending, calls, ret_true, ret_false, incs, cas_seen,
                   assert_failed, chain_vars, view_vars, pipe_vars, img_vars, dev_vars>>

\* Clone: a new wrapper over the same image, with a copy of the latch.
Clone(w, v) ==
    /\ wstate[w] = "live"
    /\ wstate[v] = "none"
    /\ wstate' = [wstate EXCEPT ![v] = "live"]
    /\ already_locked' = [already_locked EXCEPT ![v] = already_locked[w]]
    /\ UNCHANGED <<gpu_lock, pending, calls, ret_true, ret_false, incs, cas_seen,
                   assert_failed, chain_vars, view_vars, pipe_vars, img_vars, dev_vars>>

\* try_gpu_lock, first atomic step: the swap of the latch.  A call that finds
\* the latch set returns false here; the others go on to the compare_and_swap.
TryGpuLockSwap(w) ==
    /\ wstate[w] = "live"
    /\ calls[w] < MaxCalls
    /\ LET s == LatchSwap(already_locked[w]) IN
        /\ already_locked' = [already_locked EXCEPT ![w] = s.now]
        /\ calls' = [calls EXCEPT ![w] = @ + 1]
        /\ IF LatchGate(s.prev)
             THEN /\ ret_false' = [ret_false EXCEPT ![w] = @ + 1]
                  /\ UNCHANGED pending
             ELSE /\ pending' = [pending EXCEPT ![w] = @ + 1]
                  /\ UNCHANGED ret_false
    /\ UNCHANGED <<gpu_lock, wstate, ret_true, incs, cas_seen, assert_failed, chain_vars, view_vars, pipe_vars, img_vars, dev_vars>>

\* try_gpu_lock, second atomic step: compare_and_swap(0, 1) on the counter of
\* the image; the call returns whether the previous value was 0.
TryGpuLockCas(w) ==
    /\ wstate[w] = "live"
    /\ pending[w] > 0
    /\ LET c == GpuLockCas(gpu_lock) IN
        /\ gpu_lock' = c.now
        /\ cas_seen' = [cas_seen EXCEPT ![w] = c.prev]
        /\ incs' = [incs EXCEPT ![w] = IF c.now # gpu_lock THEN @ + 1 ELSE @]
        /\ IF c.prev = 0
             THEN ret_true' = [ret_true EXCEPT ![w] = @ + 1] /\ UNCHANGED ret_false
             ELSE ret_false' = [ret_false EXCEPT ![w] = @ + 1] /\ UNCHANGED ret_true
    /\ pending' = [pending EXCEPT ![w] = @ - 1]
    /\ UNCHANGED <<wstate, already_locked, calls, assert_failed, chain_vars, view_vars, pipe_vars, img_vars, dev_vars>>

\* Drop: takes the wrapper by &mut, so no call is in progress on it.  When the
\* latch is set the counter is decremented, whatever try_gpu_lock returned.
DropAccess(w) ==
    /\ wstate[w] = "live"
    /\ pending[w] = 0
    /\ wstate' = [wstate EXCEPT ![w] = "dropped"]
    /\ IF already_locked[w]
         THEN LET f == GpuLockFetchSub(gpu_lock) IN
                /\ gpu_lock' = f.now
                /\ assert_failed' = (assert_failed \/ ~(f.prev >= 1))
         ELSE UNCHANGED <<gpu_lock, assert_failed>>
    /\ UNCHANGED <<already_locked, pending, calls, ret_true, ret_false, incs, cas_seen,
                   chain_vars, view_vars, pipe_vars, img_vars, dev_vars>>

LockNext ==
    \/ \E w \in Wrappers : Access(w)
    \/ \E w, v \in Wrappers : Clone(w, v)
    \/ \E w \in Wrappers : TryGpuLockSwap(w)
    \/ \E w \in Wrappers : TryGpuLockCas(w)
    \/ \E w \in Wrappers : DropAccess(w)

\* The same without Clone: wrappers are only made by access().
LockNextNoClone ==
    \/ \E w \in Wrappers : Access(w)
    \/ \E w \in Wrappers : TryGpuLockSwap(w)
    \/ \E w \in Wrappers : TryGpuLockCas(w)
    \/ \E w \in Wrappers : DropAccess(w)

(***************************************************************************)
(* command_buffer/cb: the commands                                         *)
(***************************************************************************)
\* queue_ty_check.rs: the command types of each macro.
AlwaysKinds ==
    {"CmdCopyBuffer", "CmdCopyBufferToImage", "CmdCopyImage", "CmdFillBuffer",
     "CmdUpdateBuffer"}
GraphicsKinds ==
    {"CmdBeginRenderPass", "CmdBindIndexBuffer", "CmdBindVertexBuffers", "CmdBlitImage",
     "CmdClearAttachments", "CmdDrawIndexedRaw", "CmdDrawIndirectRaw", "CmdDrawRaw",
     "CmdEndRenderPass", "CmdNextSubpass", "CmdResolveImage"}
ComputeKinds == {"CmdDispatchRaw"}
GraphicsOrComputeKinds == {"CmdPushConstants", "CmdSetEvent", "CmdSetState"}
BindKinds == {"CmdBindPipeline", "CmdBindDescriptorSets"}
\* The command types QueueTyCheckLayer implements AddCommand for.
QueueTyKinds ==
    AlwaysKinds \cup GraphicsKinds \cup ComputeKinds \cup GraphicsOrComputeKinds
        \cup BindKinds

\* device_check.rs: the command types of each arm of pass_through.
NoDeviceKinds ==
    {"CmdClearAttachments", "CmdDrawIndexedRaw", "CmdDrawRaw", "CmdEndRenderPass",
     "CmdNextSubpass"}
DeviceOwnedKinds ==
    {"CmdBeginRenderPass", "CmdBindDescriptorSets", "CmdBindIndexBuffer",
     "CmdBindPipeline", "CmdBindVertexBuffers", "CmdBlitImage", "CmdCopyBuffer",
     "CmdCopyBufferToImage", "CmdCopyImage", "CmdDispatchRaw", "CmdDrawIndirectRaw",
     "CmdExecuteCommands", "CmdFillBuffer", "CmdPushConstants", "CmdResolveImage",
     "CmdSetEvent", "CmdSetState", "CmdUpdateBuffer"}
\* The command types DeviceCheckLayer implements AddCommand for.
DeviceCheckKinds == DeviceOwnedKinds \cup NoDeviceKinds

Devices == {"devA", "devB"}

\* A command: its type, the device of its resources ("none" for the types
\* that are not DeviceOwned) and, for the bind commands, is_graphics().
Commands ==
    [kind : DeviceOwnedKinds \ BindKinds, device : Devices, is_graphics : {FALSE}]
    \cup [kind : BindKinds, device : Devices, is_graphics : BOOLEAN]
    \cup [kind : NoDeviceKinds, device : {"none"}, is_graphics : {FALSE}]

\* The value of last_add before any add.
NoCmd == [kind |-> "none", device |-> "none", is_graphics |-> FALSE]
NoAdd == [valid |-> FALSE, cmd |-> NoCmd, layers |-> <<>>, n_before |-> 0, aborted_at |-> 0]

(***************************************************************************)
(* command_buffer/cb: the layers                                           *)
(***************************************************************************)
\* DeviceCheckLayer::new
DeviceCheckLayer == [ty |-> "DeviceCheck"]
\* QueueTyCheckLayer::new
QueueTyCheckLayer(g, c) ==
    [ty |-> "QueueTyCheck", supports_graphics |-> g, supports_compute |-> c]

LayerValues ==
    {DeviceCheckLayer} \cup {QueueTyCheckLayer(g, c) : g, c \in BOOLEAN}

\* The chains the model starts from: one layer, or one layer around another.
ChainConfigs ==
    {<<l>> : l \in LayerValues} \cup {<<l, m>> : l, m \in LayerValues}

\* QueueTyCheckLayer::supports_graphics / supports_compute
SupportsGraphics(l) == l.supports_graphics
SupportsCompute(l) == l.supports_compute

\* The assertion of each AddCommand implementation of QueueTyCheckLayer:
\* TRUE when add goes on to self.inner.add(command), FALSE when it panics.
QTyAlwaysCheckAnyQueue(l, cmd) == SupportsGraphics(l) \/ SupportsCompute(l)
QTyAlwaysCheck(l, cmd) == TRUE
QTyGraphicsCheckAnyQueue(l, cmd) == SupportsGraphics(l) \/ SupportsCompute(l)
QTyGraphicsCheckTracksRenderPass(l, cmd) ==
    /\ SupportsGraphics(l)
    /\ cmd.kind \in {"CmdEndRenderPass", "CmdNextSubpass", "CmdDrawRaw"} =>
           \E k \in 1 .. Len(recorded) : recorded[k].kind = "CmdBeginRenderPass"
QTyGraphicsCheck(l, cmd) == SupportsGraphics(l)
QTyComputeCheckGraphics(l, cmd) == SupportsGraphics(l)
QTyComputeCheck(l, cmd) == SupportsCompute(l)
QTyGraphicsOrComputeCheckBoth(l, cmd) == SupportsGraphics(l) /\ SupportsCompute(l)
QTyGraphicsOrComputeCheck(l, cmd) == SupportsGraphics(l) \/ SupportsCompute(l)
QTyBindPipelineCheckSwapped(l, cmd) ==
    IF cmd.is_graphics THEN SupportsCompute(l) ELSE SupportsGraphics(l)
QTyBindPipelineCheck(l, cmd) ==
    IF cmd.is_graphics THEN SupportsGraphics(l) ELSE SupportsCompute(l)
QTyBindDescriptorSetsCheck(l, cmd) ==
    IF cmd.is_graphics THEN SupportsGraphics(l) ELSE SupportsCompute(l)

QueueTyCheck(l, cmd) ==
    CASE cmd.kind \in AlwaysKinds -> QTyAlwaysCheck(l, cmd)
      [] cmd.kind \in GraphicsKinds -> QTyGraphicsCheck(l, cmd)
      [] cmd.kind \in ComputeKinds -> QTyComputeCheck(l, cmd)
      [] cmd.kind \in GraphicsOrComputeKinds -> QTyGraphicsOrComputeCheck(l, cmd)
      [] cmd.kind = "CmdBindPipeline" -> QTyBindPipelineCheck(l, cmd)
      [] cmd.kind = "CmdBindDescriptorSets" -> QTyBindDescriptorSetsCheck(l, cmd)

\* The two arms of pass_through: assert_eq!(inner_device, cmd_device), or no
\* check at all.
DeviceOwnedCheckSkipped(dev, cmd) == TRUE
DeviceOwnedCheck(dev, cmd) == dev = cmd.device
NoDeviceCheckCompares(dev, cmd) == dev = cmd.device
NoDeviceCheck(dev, cmd) == TRUE

DeviceCheck(dev, cmd) ==
    IF cmd.kind \in NoDeviceKinds THEN NoDeviceCheck(dev, cmd)
    ELSE DeviceOwnedCheck(dev, cmd)

\* The check of one layer; dev is self.inner.device(), which every layer
\* forwards down to the innermost builder.
LayerCheck(l, dev, cmd) ==
    IF l.ty = "DeviceCheck" THEN DeviceCheck(dev, cmd) ELSE QueueTyCheck(l, cmd)

\* AddCommand<cmd> is implemented for the chain: by every layer of it.
Addable(ls, cmd) ==
    \A i \in 1 .. Len(ls) :
        IF ls[i].ty = "DeviceCheck" THEN cmd.kind \in DeviceCheckKinds
        ELSE cmd.kind \in QueueTyKinds

\* The checks of the layers, innermost layer first: the layer that would abort
\* if every layer forwarded before it checked.
RECURSIVE LayerAddInnerFirst(_, _, _, _)
LayerAddInnerFirst(ls, i, dev, cmd) ==
    IF i > Len(ls) THEN 0
    ELSE LET d == LayerAddInnerFirst(ls, i + 1, dev, cmd) IN
         IF d # 0 THEN d
         ELSE IF ~LayerCheck(ls[i], dev, cmd) THEN i
         ELSE 0

\* add on the layers ls[i..]: each layer runs its check, then calls
\* self.inner.add(command).  The result is the index of the layer that
\* panicked, or 0 when the command reached the innermost builder.
RECURSIVE LayerAdd(_, _, _, _)
LayerAdd(ls, i, dev, cmd) ==
    IF i > Len(ls) THEN 0
    ELSE IF ~LayerCheck(ls[i], dev, cmd) THEN i
    ELSE LayerAdd(ls, i + 1, dev, cmd)

\* The layer value add returns: the fields are copied from self.
LayerAfterAddSwapsFlags(l) ==
    IF l.ty = "DeviceCheck" THEN DeviceCheckLayer
    ELSE QueueTyCheckLayer(l.supports_compute, l.supports_graphics)
LayerAfterAdd(l) ==
    IF l.ty = "DeviceCheck" THEN DeviceCheckLayer
    ELSE QueueTyCheckLayer(l.supports_graphics, l.supports_compute)

\* add of the innermost builder: the command is recorded.
InnerAdd(cmds, cmd) == Append(cmds, cmd)

\* What a layer that accepts a command hands to self.inner.add: the command.
DeviceCheckForwardDrops(cmd) == <<>>
DeviceCheckForward(cmd) == <<cmd>>
QueueTyCheckForward(cmd) == <<cmd>>

\* The commands that arrive at the innermost builder when the layers ls[i..]
\* accept the commands cmds.
RECURSIVE LayersForward(_, _, _)
LayersForward(ls, i, cmds) ==
    IF i > Len(ls) \/ cmds = <<>> THEN cmds
    ELSE IF ls[i].ty = "DeviceCheck"
         THEN LayersForward(ls, i + 1, DeviceCheckForward(cmds[1]))
    ELSE LayersForward(ls, i + 1, QueueTyCheckForward(cmds[1]))

\* What build() of the innermost builder can return: its output or one of
\* its errors.
InnerBuildResults == {"Ok", "Err(OutOfHostMemory)", "Err(OutOfDeviceMemory)"}

\* build of one layer, r being what self.inner.build() returned.
DeviceCheckBuildSwallowsErr(r) == "Ok"
DeviceCheckBuild(r) == r
QueueTyCheckBuild(r) == r

\* build of the layers ls[i..], r being what the innermost builder returns.
RECURSIVE LayerBuild(_, _, _)
LayerBuild(ls, i, r) ==
    IF i > Len(ls) THEN r
    ELSE IF ls[i].ty = "DeviceCheck" THEN DeviceCheckBuild(LayerBuild(ls, i + 1, r))
    ELSE QueueTyCheckBuild(LayerBuild(ls, i + 1, r))

\* add, build and into_inner take self by value and the layers are neither
\* Clone nor Copy: the receiver is gone after the call.  The builder that add
\* and into_inner return is a new value, which no call was made on yet.
UsesOfReturnedSameValue(uses) == uses + 1
UsesOfReturned(uses) == 0

(***************************************************************************)
(* command_buffer/cb: the operations                                       *)
(***************************************************************************)
LockIdle ==
    /\ gpu_lock = 0
    /\ wstate = [w \in Wrappers |-> "none"]
    /\ already_locked = [w \in Wrappers |-> FALSE]
    /\ pending = [w \in Wrappers |-> 0]
    /\ calls = [w \in Wrappers |-> 0]
    /\ ret_true = [w \in Wrappers |-> 0]
    /\ ret_false = [w \in Wrappers |-> 0]
    /\ incs = [w \in Wrappers |-> 0]
    /\ cas_seen = [w \in Wrappers |-> -1]
    /\ assert_failed = FALSE

\* A chain built with DeviceCheckLayer::new / QueueTyCheckLayer::new over an
\* innermost builder that has recorded nothing yet.
ChainInit ==
    /\ layers \in ChainConfigs
    /\ inner_device \in Devices
    /\ recorded = <<>>
    /\ chain_status = "building"
    /\ last_add = NoAdd
    /\ build_result = "none"
    /\ inner_result = "none"
    /\ ctor_layers = layers
    /\ receiver_uses = 0

\* add(command) on the outermost layer.  It consumes the chain: when a layer
\* panics nothing is left to add to.
AddCommand(cmd) ==
    /\ chain_status = "building"
    /\ Len(recorded) < MaxCmds
    /\ Addable(layers, cmd)
    /\ LET a == LayerAdd(layers, 1, inner_device, cmd) IN
        /\ last_add' = [valid |-> TRUE, cmd |-> cmd, layers |-> layers,
                        n_before |-> Len(recorded), aborted_at |-> a]
        /\ IF a = 0
             THEN /\ LET arriving == LayersForward(layers, 1, <<cmd>>) IN
                       recorded' = IF arriving = <<>> THEN recorded
                                   ELSE InnerAdd(recorded, arriving[1])
                  /\ layers' = [i \in 1 .. Len(layers) |-> LayerAfterAdd(layers[i])]
                  /\ receiver_uses' = UsesOfReturned(receiver_uses)
                  /\ UNCHANGED chain_status
             ELSE /\ chain_status' = "aborted"
                  /\ receiver_uses' = receiver_uses + 1
                  /\ UNCHANGED <<recorded, layers>>
    /\ UNCHANGED <<inner_device, build_result, inner_result, ctor_layers, lock_vars, view_vars, pipe_vars, img_vars, dev_vars>>

\* build() on the outermost layer.
Build ==
    /\ chain_status = "building"
    /\ \E r \in InnerBuildResults :
          /\ inner_result' = r
          /\ build_result' = LayerBuild(layers, 1, r)
    /\ chain_status' = "built"
    /\ receiver_uses' = receiver_uses + 1
    /\ UNCHANGED <<layers, inner_device, recorded, last_add, ctor_layers, lock_vars, view_vars, pipe_vars, img_vars, dev_vars>>

\* into_inner() on the outermost layer: the layer is destroyed, the builder
\* it wraps is returned and is the chain from then on (no add was made on
\* that value yet).
IntoInner ==
    /\ chain_status = "building"
    /\ layers # <<>>
    /\ layers' = Tail(layers)
    /\ ctor_layers' = Tail(ctor_layers)
    /\ last_add' = NoAdd
    /\ receiver_uses' = UsesOfReturned(receiver_uses)
    /\ UNCHANGED <<inner_device, recorded, chain_status, build_result, inner_result,
                   lock_vars, view_vars, pipe_vars, img_vars, dev_vars>>

ChainNext ==
    \/ \E cmd \in Commands : AddCommand(cmd)
    \/ Build
    \/ IntoInner

(***************************************************************************)
(* Claims about the GPU lock                                               *)
(***************************************************************************)
\* All try_gpu_lock calls started on w have returned, and there is at least one.
CallsCompleted(w) == calls[w] >= 1 /\ pending[w] = 0

\* C1 (as stated): on one wrapper, once its concurrent try_gpu_lock calls have
\* all returned, exactly one of them has returned true.
C1_ExactlyOneSuccess ==
    \A w \in Wrappers : CallsCompleted(w) => ret_true[w] = 1

\* C1 (amended): on one wrapper at most one try_gpu_lock call returns true, and
\* once the calls have all returned, one has returned true exactly when the
\* call that found the latch unset read 0 in the counter of the image.
C1_AtMostOneSuccess ==
    \A w \in Wrappers :
        /\ ret_true[w] <= 1
        /\ ret_true[w] + ret_false[w] + pending[w] = calls[w]
        /\ CallsCompleted(w) => (ret_true[w] = 1 <=> cas_seen[w] = 0)

\* Two calls were made on one wrapper: one returned true, the other false;
\* and on another wrapper the only call returned false.
C1_Witness ==
    \E w, v \in Wrappers :
        /\ w # v
        /\ calls[w] = 2 /\ ret_true[w] = 1 /\ ret_false[w] = 1
        /\ CallsCompleted(v) /\ ret_true[v] = 0

\* C2: the gpu_lock counter never goes below 0: no fetch_sub is applied while
\* the counter is 0 (the debug_assert!(prev_val >= 1) of Drop never fails).
C2_CounterNeverNegative == ~assert_failed

\* The wrapper w acquired the lock: one of its try_gpu_lock calls returned true.
Acquired(w) == ret_true[w] >= 1

\* C3: when the last of the wrappers that acquired the lock is dropped, the
\* counter is back at the value it had before the first acquisition, which
\* is 0 (an acquisition is a compare_and_swap from 0).
C3_ReleaseRestoresCounter ==
    [][\A w \in Wrappers :
          ( /\ Acquired(w)
            /\ wstate[w] = "live" /\ wstate'[w] = "dropped"
            /\ \A v \in Wrappers \ {w} : Acquired(v) => wstate[v] = "dropped" )
          => gpu_lock' = 0]_vars

\* C4: a try_gpu_lock call on a wrapper whose latch is set returns false at
\* once and leaves the counter unchanged; and one wrapper increments the
\* counter at most once.
C4_LatchedCallFails ==
    /\ [][\A w \in Wrappers :
            (calls'[w] = calls[w] + 1 /\ already_locked[w])
            => /\ ret_false'[w] = ret_false[w] + 1
               /\ pending'[w] = pending[w]
               /\ gpu_lock' = gpu_lock]_vars
    /\ [](\A w \in Wrappers : incs[w] <= 1)

\* A wrapper incremented the counter and a later call on it, made with the
\* latch set and the counter back at 0, returned false.
C4_Witness ==
    \E w \in Wrappers :
        /\ incs[w] = 1 /\ ret_false[w] = 1 /\ calls[w] = 2
        /\ wstate[w] = "live" /\ gpu_lock = 0

\* C27: with wrappers made by access() only, there are never two live wrappers
\* whose try_gpu_lock both returned true.
C27_AtMostOneHolder ==
    \A w, v \in Wrappers :
        (w # v /\ wstate[w] = "live" /\ wstate[v] = "live") => ~(Acquired(w) /\ Acquired(v))

\* The wrapper w never acquired the lock: no try_gpu_lock call was made on it, or
\* its only call returned false after reading a counter that was not 0.
NeverAcquired(w) ==
    \/ calls[w] = 0
    \/ calls[w] = 1 /\ pending[w] = 0 /\ ret_false[w] = 1 /\ cas_seen[w] >= 1

\* C28: the drop of a wrapper that never acquired the lock leaves the gpu_lock
\* counter of the image unchanged.
C28_DropWithoutLockKeepsCounter ==
    [][\A w \in Wrappers :
          (NeverAcquired(w) /\ wstate[w] = "live" /\ wstate'[w] = "dropped")
          => gpu_lock' = gpu_lock]_vars


(***************************************************************************)
(* Claims about the builder layers                                         *)
(***************************************************************************)
\* In the last add, add of layer i was called: no layer around it panicked.
Reached(i) ==
    /\ last_add.valid
    /\ i \in 1 .. Len(last_add.layers)
    /\ (last_add.aborted_at = 0 \/ last_add.aborted_at >= i)
\* In the last add, layer i panicked.
AbortedBy(i) == last_add.aborted_at = i /\ chain_status = "aborted"
\* In the last add, layer i called self.inner.add(command); when it is the
\* innermost layer, the innermost builder has recorded the command.
Forwarded(i) ==
    /\ (last_add.aborted_at = 0 \/ last_add.aborted_at > i)
    /\ i = Len(last_add.layers) =>
          /\ Len(recorded) = last_add.n_before + 1
          /\ recorded[Len(recorded)] = last_add.cmd
          /\ chain_status # "aborted"
\* The last add called add of the QueueTyCheckLayer i with a command of `kinds`.
QueueTyAdd(i, kinds) ==
    /\ Reached(i)
    /\ last_add.layers[i].ty = "QueueTyCheck"
    /\ last_add.cmd.kind \in kinds
\* The last add called add of the DeviceCheckLayer i with a command of `kinds`.
DeviceAdd(i, kinds) ==
    /\ Reached(i)
    /\ last_add.layers[i].ty = "DeviceCheck"
    /\ last_add.cmd.kind \in kinds
LastLayers == 1 .. Len(last_add.layers)

\* C5: QueueTyCheckLayer.add of a graphics-only command aborts if and only
\* if supports_graphics is false, whatever supports_compute is; otherwise
\* the command is forwarded.
C5_GraphicsOnly ==
    \A i \in LastLayers :
        QueueTyAdd(i, GraphicsKinds) =>
            /\ AbortedBy(i) <=> ~last_add.layers[i].supports_graphics
            /\ Forwarded(i) <=> last_add.layers[i].supports_graphics

\* A layer built with supports_graphics = false, supports_compute = true
\* rejected a begin-render-pass command.
C5_Witness ==
    \E i \in LastLayers :
        /\ QueueTyAdd(i, {"CmdBeginRenderPass"})
        /\ last_add.layers[i] = QueueTyCheckLayer(FALSE, TRUE)
        /\ AbortedBy(i)

\* C6: QueueTyCheckLayer.add of CmdDispatchRaw aborts if and only if
\* supports_compute is false, whatever supports_graphics is; otherwise the
\* command is forwarded.
C6_ComputeOnly ==
    \A i \in LastLayers :
        QueueTyAdd(i, ComputeKinds) =>
            /\ AbortedBy(i) <=> ~last_add.layers[i].supports_compute
            /\ Forwarded(i) <=> last_add.layers[i].supports_compute

\* A layer built with supports_graphics = false, supports_compute = true
\* accepted a dispatch command, which the innermost builder recorded.
C6_Witness ==
    /\ last_add.valid
    /\ last_add.layers = <<QueueTyCheckLayer(FALSE, TRUE)>>
    /\ last_add.cmd.kind = "CmdDispatchRaw"
    /\ Forwarded(1)
    /\ recorded = <<last_add.cmd>>

\* C7: QueueTyCheckLayer.add of a bind-pipeline or bind-descriptor-sets
\* command aborts iff the capability of the command's own variant is
\* missing: supports_graphics when is_graphics(), supports_compute otherwise.
C7_BindByVariant ==
    \A i \in LastLayers :
        QueueTyAdd(i, BindKinds) =>
            LET l == last_add.layers[i]
                needed == IF last_add.cmd.is_graphics THEN l.supports_graphics
                          ELSE l.supports_compute
            IN  /\ AbortedBy(i) <=> ~needed
                /\ Forwarded(i) <=> needed

\* A compute bind-pipeline was accepted by a layer without graphics support,
\* and a graphics bind-descriptor-sets was rejected by such a layer.
C7_Witness ==
    \E i \in LastLayers :
        /\ last_add.layers[i] = QueueTyCheckLayer(FALSE, TRUE)
        /\ QueueTyAdd(i, {"CmdBindDescriptorSets"})
        /\ last_add.cmd.is_graphics
        /\ AbortedBy(i)
        /\ Len(recorded) = 1
        /\ recorded[1].kind = "CmdBindPipeline" /\ ~recorded[1].is_graphics

\* C8: QueueTyCheckLayer.add of a graphics-or-compute command is accepted
\* when at least one of the two flags is true and aborts exactly when both
\* are false.
C8_GraphicsOrCompute ==
    \A i \in LastLayers :
        QueueTyAdd(i, GraphicsOrComputeKinds) =>
            LET l == last_add.layers[i] IN
                /\ AbortedBy(i) <=> (~l.supports_graphics /\ ~l.supports_compute)
                /\ Forwarded(i) <=> (l.supports_graphics \/ l.supports_compute)

\* A layer with only supports_compute set recorded a push-constants command
\* and then a set-state command.
C8_Witness ==
    /\ last_add.valid
    /\ last_add.layers = <<QueueTyCheckLayer(FALSE, TRUE)>>
    /\ Len(recorded) = 2
    /\ recorded[1].kind = "CmdPushConstants"
    /\ recorded[2].kind = "CmdSetState"
    /\ chain_status = "building"

\* C9: QueueTyCheckLayer.add of an always-allowed command never aborts,
\* whatever the two flags are, and always forwards the command.
C9_AlwaysAllowed ==
    \A i \in LastLayers :
        QueueTyAdd(i, AlwaysKinds) => ~AbortedBy(i) /\ Forwarded(i)

\* A layer with both flags false recorded a buffer copy.
C9_Witness ==
    /\ last_add.valid
    /\ last_add.layers = <<QueueTyCheckLayer(FALSE, FALSE)>>
    /\ last_add.cmd.kind = "CmdCopyBuffer"
    /\ recorded = <<last_add.cmd>>
    /\ chain_status = "building"

\* C10: DeviceCheckLayer.add of a device-owned command aborts if and only if
\* the device of the command differs from the device of the inner builder;
\* when they are equal the command is forwarded.
C10_DeviceMismatchAborts ==
    \A i \in LastLayers :
        DeviceAdd(i, DeviceOwnedKinds) =>
            /\ AbortedBy(i) <=> last_add.cmd.device # inner_device
            /\ Forwarded(i) <=> last_add.cmd.device = inner_device

\* A command of another device was rejected by the device-check layer after
\* a command of the builder's device was recorded.
C10_Witness ==
    /\ DeviceAdd(1, DeviceOwnedKinds)
    /\ last_add.cmd.device # inner_device
    /\ AbortedBy(1)
    /\ Len(recorded) = 1 /\ recorded[1].device = inner_device

\* C11: DeviceCheckLayer.add of a command with no device affinity makes no
\* device comparison: it never aborts, whatever the device of the inner
\* builder, and always forwards the command.
C11_NoDevicePassThrough ==
    \A i \in LastLayers :
        DeviceAdd(i, NoDeviceKinds) => ~AbortedBy(i) /\ Forwarded(i)

\* A device-check layer alone recorded a draw and then an end-render-pass,
\* neither of which has a device.
C11_Witness ==
    /\ last_add.valid
    /\ last_add.layers = <<DeviceCheckLayer>>
    /\ Len(recorded) = 2
    /\ recorded[1].kind = "CmdDrawRaw" /\ recorded[1].device = "none"
    /\ recorded[2].kind = "CmdEndRenderPass"
    /\ chain_status = "building"

\* C12: after any sequence of accepted add calls, supports_graphics() and
\* supports_compute() of every QueueTyCheckLayer of the chain return the
\* flags its constructor was given.
C12_FlagsFixed ==
    /\ Len(layers) = Len(ctor_layers)
    /\ \A i \in 1 .. Len(layers) :
          /\ layers[i].ty = ctor_layers[i].ty
          /\ layers[i].ty = "QueueTyCheck" =>
                /\ SupportsGraphics(layers[i]) = ctor_layers[i].supports_graphics
                /\ SupportsCompute(layers[i]) = ctor_layers[i].supports_compute

\* A layer built with (true, false) has accepted two commands and still
\* answers (true, false).
C12_Witness ==
    /\ ctor_layers = <<QueueTyCheckLayer(TRUE, FALSE)>>
    /\ Len(recorded) = 2
    /\ chain_status = "building"
    /\ SupportsGraphics(layers[1]) /\ ~SupportsCompute(layers[1])

\* C13: build() on a chain of layers returns exactly what build() of the
\* innermost builder returned: the same output or the same error.
C13_BuildTransparent ==
    chain_status = "built" =>
        /\ inner_result \in InnerBuildResults
        /\ build_result = inner_result

\* A device-check layer around a queue-type-check layer returned the error
\* of the innermost builder.
C13_Witness ==
    /\ chain_status = "built"
    /\ Len(layers) = 2
    /\ layers[1].ty = "DeviceCheck" /\ layers[2].ty = "QueueTyCheck"
    /\ inner_result = "Err(OutOfDeviceMemory)"
    /\ build_result = "Err(OutOfDeviceMemory)"

\* C14: every add, build and into_inner consumes the builder value it is
\* called on: no builder value is the receiver of more than one call, and
\* once build has been called (or add has panicked) nothing more happens to
\* the chain.
C14_ConsumptionLaw ==
    /\ [](receiver_uses <= 1)
    /\ [](receiver_uses = 1 <=> chain_status \in {"built", "aborted"})
    /\ [][(chain_status \in {"built", "aborted"}) => UNCHANGED chain_vars]_vars

\* A chain was built after two adds: each call was made on the value the
\* previous one returned.
C14_Witness ==
    /\ chain_status = "built"
    /\ Len(recorded) = 2
    /\ receiver_uses = 1

\* C29: in both layers the check comes before the forwarding.  When an add
\* aborts, the innermost builder has not received the command (the recorded
\* commands are those recorded before the add, and stay so), and the layer that
\* aborts is the outermost of the layers whose check fails: the check of an
\* outer layer runs before that of the layer it wraps.
C29_CheckBeforeForward ==
    (last_add.valid /\ last_add.aborted_at # 0) =>
        /\ chain_status = "aborted"
        /\ Len(recorded) = last_add.n_before
        /\ last_add.aborted_at \in LastLayers
        /\ ~LayerCheck(last_add.layers[last_add.aborted_at], inner_device, last_add.cmd)
        /\ \A j \in 1 .. (last_add.aborted_at - 1) :
               LayerCheck(last_add.layers[j], inner_device, last_add.cmd)
\* A chain of two layers whose checks both fail on the command, after one
\* command was accepted: the outer layer aborted and one command is recorded.
C29_Witness ==
    /\ last_add.valid
    /\ Len(last_add.layers) = 2
    /\ last_add.aborted_at = 1
    /\ ~LayerCheck(last_add.layers[2], inner_device, last_add.cmd)
    /\ Len(recorded) = 1
    /\ chain_status = "aborted"

\* C30: the layers are transparent for accepted commands.  On any nesting, an
\* add that no layer aborts appends the command, once, to the commands the
\* innermost builder has received and changes nothing else of it, and
\* into_inner removes the outermost layer and returns the builder it wraps with
\* the commands it has received.
C30_Transparent ==
    [][/\ (last_add'.valid /\ last_add' # last_add /\ last_add'.aborted_at = 0)
            => /\ recorded' = Append(recorded, last_add'.cmd)
               /\ inner_device' = inner_device
               /\ Len(layers') = Len(layers)
       /\ (chain_status = "building" /\ Len(layers') < Len(layers))
            => /\ layers' = Tail(layers)
               /\ recorded' = recorded
               /\ inner_device' = inner_device
               /\ chain_status' = "building"]_vars
\* Two commands were accepted by a chain of two layers, then into_inner was
\* called twice: the innermost builder is left, with the two commands.
C30_Witness ==
    /\ layers = <<>>
    /\ chain_status = "building"
    /\ Len(recorded) = 2
    /\ recorded[1] # recorded[2]

\* What a QueueTyCheckLayer built with the flags g (graphics) and c (compute)
\* decides on a command, from the flags and the command alone.
C31_Decision(g, c, cmd) ==
    IF cmd.kind \in AlwaysKinds THEN TRUE
    ELSE IF cmd.kind \in GraphicsKinds THEN g
    ELSE IF cmd.kind \in ComputeKinds THEN c
    ELSE IF cmd.kind \in GraphicsOrComputeKinds THEN g \/ c
    ELSE IF cmd.is_graphics THEN g ELSE c
\* The positions of the QueueTyCheckLayers in the chain.
QueueTyLayers == {i \in 1 .. Len(layers) : layers[i].ty = "QueueTyCheck"}
\* C31: the decision of QueueTyCheckLayer does not depend on the commands added
\* before.  Whatever the innermost builder has received so far, the layer
\* accepts a command exactly when the flags it was constructed with and the
\* command (its kind and, for the bind commands, is_graphics()) say so, and the
\* last add was decided that way; so two chains with the same flags accept the
\* same commands after different prefixes.
C31_HistoryIndependent ==
    /\ \A i \in QueueTyLayers : \A cmd \in Commands :
          cmd.kind \in QueueTyKinds =>
              (LayerCheck(layers[i], inner_device, cmd)
                  <=> C31_Decision(ctor_layers[i].supports_graphics,
                                   ctor_layers[i].supports_compute, cmd))
    /\ \A i \in LastLayers :
          (Reached(i) /\ last_add.layers[i].ty = "QueueTyCheck") =>
              (last_add.aborted_at # i
                  <=> C31_Decision(ctor_layers[i].supports_graphics,
                                   ctor_layers[i].supports_compute, last_add.cmd))
\* An end-render-pass was accepted by a QueueTyCheckLayer after a command that
\* is not a begin-render-pass.
C31_Witness ==
    /\ Len(layers) = 1
    /\ layers[1].ty = "QueueTyCheck"
    /\ chain_status = "building"
    /\ Len(recorded) = 2
    /\ recorded[1].kind = "CmdDispatchRaw"
    /\ recorded[2].kind = "CmdEndRenderPass"
    /\ last_add.aborted_at = 0

\* C33: every command type DeviceCheckLayer implements add for is classified by
\* QueueTyCheckLayer, so a command that can be added to a DeviceCheckLayer can
\* be added to any chain that contains a QueueTyCheckLayer.
C33_DeviceKindsClassified ==
    \A cmd \in Commands :
        (cmd.kind \in DeviceCheckKinds /\ QueueTyLayers # {}) => Addable(layers, cmd)

(***************************************************************************)
(* buffer/view.rs: BufferView::new, BufferView::unchecked, the queries of  *)
(* a view and its destruction.                                             *)
(***************************************************************************)
\* The formats: a compressed format has no element size (format.size() is None).
Formats ==
    {[compressed |-> TRUE, size |-> 0]}
        \cup {[compressed |-> FALSE, size |-> s] : s \in 1 .. MaxFormatSize}

\* bufferFeatures of a format, as the device reports them: the three bits read
\* by the creation.
FeatureSets == [uniform : BOOLEAN, storage : BOOLEAN, atomic : BOOLEAN]

\* The arguments of a creation and the state of the device.  BufferView::new
\* takes a StrongStorage format, which a compressed format is not.
ViewInputs ==
    {i \in [entry : {"new", "unchecked"},
            usage_uniform : BOOLEAN, usage_storage : BOOLEAN,
            size : 0 .. MaxBufSize,
            format : Formats,
            limit : 0 .. MaxLimit,
            features : FeatureSets] :
        i.entry = "new" => ~i.format.compressed}

NoInput ==
    [entry |-> "none", usage_uniform |-> FALSE, usage_storage |-> FALSE, size |-> 0,
     format |-> [compressed |-> FALSE, size |-> 1], limit |-> 0,
     features |-> [uniform |-> FALSE, storage |-> FALSE, atomic |-> FALSE]]

NoProps == [valid |-> FALSE, uniform |-> FALSE, storage |-> FALSE, atomic |-> FALSE]

NoView ==
    [valid |-> FALSE, atomic_accesses |-> FALSE,
     usage_uniform |-> FALSE, usage_storage |-> FALSE]

\* What the driver can return from CreateBufferView.
NativeCreateResults == {"Success", "OutOfHostMemory", "OutOfDeviceMemory"}

UsageCheckFailsNever(uniform, storage) == FALSE
\* if !buffer.usage_uniform_texel_buffer() && !buffer.usage_storage_texel_buffer()
UsageCheckFails(uniform, storage) == ~uniform /\ ~storage

StageAfterUsageSkipsElements == "features"
\* The block that follows the usage check.
StageAfterUsage == "elements"

\* let nb = size / format.size()
NbElements(size, element_size) == size \div element_size

ElementCountExceededAtLimit(nb, l) == nb >= l
\* if nb > l as usize
ElementCountExceeded(nb, l) == nb > l

\* usage_uniform_texel_buffer() with FORMAT_FEATURE_UNIFORM_TEXEL_BUFFER_BIT clear
UniformFeatureMissing(uniform, props) == uniform /\ ~props.uniform

StorageFeatureMissingIgnored(storage, props) == FALSE
\* usage_storage_texel_buffer() with FORMAT_FEATURE_STORAGE_TEXEL_BUFFER_BIT clear
StorageFeatureMissing(storage, props) == storage /\ ~props.storage

UniformTexelBufferReadsStorage(view) == view.usage_storage
\* BufferView::uniform_texel_buffer
UniformTexelBuffer(view) == view.usage_uniform

\* BufferView::storage_texel_buffer
StorageTexelBuffer(view) == view.usage_storage

StorageTexelBufferAtomicBitOnly(view) == view.atomic_accesses
\* BufferView::storage_texel_buffer_atomic
StorageTexelBufferAtomic(view) == view.atomic_accesses /\ StorageTexelBuffer(view)

EntryStageUncheckedSkipsChecks(entry) == IF entry = "unchecked" THEN "native" ELSE "usage"
\* BufferView::new only calls BufferView::unchecked: both start at the usage check.
EntryStage(entry) == "usage"

ViewDropCallsNone == <<>>
\* Drop for BufferView: one DestroyBufferView.
ViewDropCalls == <<"DestroyBufferView">>

\* The native destroy calls `made`, logged with the state of the device.
LogDestroy(log, made, holders) ==
    log \o [k \in 1 .. Len(made) |-> [call |-> made[k], device_alive |-> holders # {}]]

ViewInit ==
    /\ bv_in \in ViewInputs
    /\ bv_pc = EntryStage(bv_in.entry)
    /\ bv_format_props = NoProps
    /\ bv_native = <<>>
    /\ bv_native_result = "none"
    /\ bv_result = "none"
    /\ bv_view = NoView
    /\ bv_owners = 0
    /\ bv_checks = <<>>
    /\ dev_holders = {"user", "buffer"}
    /\ destroy_log = <<>>

ViewIdle ==
    /\ bv_in = NoInput
    /\ bv_pc = "idle"
    /\ bv_format_props = NoProps
    /\ bv_native = <<>>
    /\ bv_native_result = "none"
    /\ bv_result = "none"
    /\ bv_view = NoView
    /\ bv_owners = 0
    /\ bv_checks = <<>>

DevIdle ==
    /\ dev_holders = {}
    /\ destroy_log = <<>>

\* The usage check.  A creation that returns an error drops org_buffer.
ViewCheckUsage ==
    /\ bv_pc = "usage"
    /\ bv_checks' = Append(bv_checks, "usage")
    /\ IF UsageCheckFails(bv_in.usage_uniform, bv_in.usage_storage)
       THEN /\ bv_result' = "WrongBufferUsage"
            /\ bv_pc' = "done"
            /\ dev_holders' = dev_holders \ {"buffer"}
       ELSE /\ bv_pc' = StageAfterUsage
            /\ UNCHANGED <<bv_result, dev_holders>>
    /\ UNCHANGED <<bv_in, bv_format_props, bv_native, bv_native_result, bv_view, bv_owners,
                   destroy_log, lock_vars, chain_vars, pipe_vars, img_vars>>

\* The element-count check; expect() panics on a compressed format.
ViewCheckElements ==
    /\ bv_pc = "elements"
    /\ bv_checks' = Append(bv_checks, "elements")
    /\ IF bv_in.format.compressed
       THEN /\ bv_result' = "panic"
            /\ bv_pc' = "done"
            /\ dev_holders' = dev_holders \ {"buffer"}
       ELSE IF ElementCountExceeded(NbElements(bv_in.size, bv_in.format.size), bv_in.limit)
       THEN /\ bv_result' = "MaxTexelBufferElementsExceeded"
            /\ bv_pc' = "done"
            /\ dev_holders' = dev_holders \ {"buffer"}
       ELSE /\ bv_pc' = "features"
            /\ UNCHANGED <<bv_result, dev_holders>>
    /\ UNCHANGED <<bv_in, bv_format_props, bv_native, bv_native_result, bv_view, bv_owners,
                   destroy_log, lock_vars, chain_vars, pipe_vars, img_vars>>

\* GetPhysicalDeviceFormatProperties and the two checks of bufferFeatures.
ViewCheckFeatures ==
    /\ bv_pc = "features"
    /\ bv_checks' = Append(bv_checks, "features")
    /\ bv_native' = Append(bv_native, "GetPhysicalDeviceFormatProperties")
    /\ bv_format_props' = [valid |-> TRUE, uniform |-> bv_in.features.uniform,
                           storage |-> bv_in.features.storage,
                           atomic |-> bv_in.features.atomic]
    /\ IF \/ UniformFeatureMissing(bv_in.usage_uniform, bv_format_props')
          \/ StorageFeatureMissing(bv_in.usage_storage, bv_format_props')
       THEN /\ bv_result' = "UnsupportedFormat"
            /\ bv_pc' = "done"
            /\ dev_holders' = dev_holders \ {"buffer"}
       ELSE /\ bv_pc' = "native"
            /\ UNCHANGED <<bv_result, dev_holders>>
    /\ UNCHANGED <<bv_in, bv_native_result, bv_view, bv_owners, destroy_log,
                   lock_vars, chain_vars, pipe_vars, img_vars>>

\* try!(check_errors(CreateBufferView(..))) and the construction of the view,
\* which takes org_buffer.
ViewCreateNative ==
    /\ bv_pc = "native"
    /\ bv_checks' = Append(bv_checks, "native")
    /\ \E r \in NativeCreateResults :
         /\ bv_native' = Append(bv_native, "CreateBufferView")
         /\ bv_native_result' = r
         /\ IF r = "Success"
            THEN /\ bv_view' = [valid |-> TRUE,
                                atomic_accesses |-> bv_format_props.atomic,
                                usage_uniform |-> bv_in.usage_uniform,
                                usage_storage |-> bv_in.usage_storage]
                 /\ bv_result' = "Ok"
                 /\ bv_owners' = 1
                 /\ UNCHANGED dev_holders
            ELSE /\ bv_result' = "OomError"
                 /\ dev_holders' = dev_holders \ {"buffer"}
                 /\ UNCHANGED <<bv_view, bv_owners>>
    /\ bv_pc' = "done"
    /\ UNCHANGED <<bv_in, bv_format_props, destroy_log, lock_vars, chain_vars, pipe_vars,
                   img_vars>>

\* Arc::clone of the returned Arc<BufferView>.
ViewArcClone ==
    /\ bv_owners >= 1
    /\ bv_owners < MaxOwners
    /\ bv_owners' = bv_owners + 1
    /\ UNCHANGED <<bv_in, bv_pc, bv_format_props, bv_native, bv_native_result, bv_result,
                   bv_view, bv_checks, dev_vars, lock_vars, chain_vars, pipe_vars, img_vars>>

\* An owner drops its Arc; the last one runs Drop for BufferView, then the
\* fields of the view are dropped, the buffer among them.
ViewArcDrop ==
    /\ bv_owners >= 1
    /\ bv_owners' = bv_owners - 1
    /\ IF bv_owners = 1
       THEN /\ bv_native' = bv_native \o ViewDropCalls
            /\ destroy_log' = LogDestroy(destroy_log, ViewDropCalls, dev_holders)
            /\ dev_holders' = dev_holders \ {"buffer"}
            /\ bv_pc' = "dropped"
       ELSE UNCHANGED <<bv_native, bv_pc, dev_vars>>
    /\ UNCHANGED <<bv_in, bv_format_props, bv_native_result, bv_result, bv_view, bv_checks,
                   lock_vars, chain_vars, pipe_vars, img_vars>>

\* The caller, or whoever else holds the device, drops its Arc<Device>.  During
\* ComputePipeline::new and AttachmentImage::new_impl the device is borrowed.
DeviceUserDrop ==
    /\ "user" \in dev_holders
    /\ cp_pc \in {"idle", "done", "dropped"}
    /\ img_pc \in {"idle", "done", "dropped"}
    /\ dev_holders' = dev_holders \ {"user"}
    /\ UNCHANGED <<destroy_log, lock_vars, chain_vars, view_vars, pipe_vars, img_vars>>

ViewNext ==
    \/ ViewCheckUsage
    \/ ViewCheckElements
    \/ ViewCheckFeatures
    \/ ViewCreateNative
    \/ ViewArcClone
    \/ ViewArcDrop
    \/ DeviceUserDrop

(***************************************************************************)
(* pipeline/compute_pipeline.rs: ComputePipeline::new and Drop for Inner.  *)
(***************************************************************************)
\* Descriptor bindings a pipeline layout can describe.
Bindings == {"set0_binding0_UniformBuffer", "set0_binding1_StorageBuffer"}

\* What build() of the layout description can return.
LayoutBuildResults == {"Ok", "Err(OutOfHostMemory)", "Err(OutOfDeviceMemory)"}

\* What the driver can return from CreateComputePipelines.
NativePipelineResults ==
    {"Success", "OutOfHostMemory", "OutOfDeviceMemory", "InitializationFailed", "DeviceLost"}

\* The shader's layout, the description of the layout built from its clone (the
\* Clone and description traits are implemented outside this module, so the two
\* are not tied), and the answer of build().
PipeInputs ==
    [shader_layout : SUBSET Bindings, built_desc : SUBSET Bindings,
     build_result : LayoutBuildResults]

NoPipeInput == [shader_layout |-> {}, built_desc |-> {}, build_result |-> "Ok"]

\* PipelineLayoutSuperset::is_superset_of(a, b): a describes every binding of b.
IsSupersetOf(a, b) == b \subseteq a

\* .unwrap() on the result of build(device).
LayoutBuildUnwrap(r) == IF r = "Ok" THEN "Ok" ELSE "panic"

LayoutCheckFailsSwapped(built, shader) == ~IsSupersetOf(shader, built)
\* if !PipelineLayoutSuperset::is_superset_of(pipeline_layout.desc(), shader.layout())
LayoutCheckFails(built, shader) == ~IsSupersetOf(built, shader)

PipelineFromErrorMapsAll(err) == "OomError"
\* From<Error> for ComputePipelineCreationError
PipelineFromError(err) ==
    IF err = "OutOfHostMemory" THEN "OomError"
    ELSE IF err = "OutOfDeviceMemory" THEN "OomError"
    ELSE "panic"

InnerDropCallsNone == <<>>
\* Drop for Inner: one DestroyPipeline.
InnerDropCalls == <<"DestroyPipeline">>

PipeInit ==
    /\ cp_in \in PipeInputs
    /\ cp_pc = "build_layout"
    /\ cp_layout = "none"
    /\ cp_native = <<>>
    /\ cp_native_result = "none"
    /\ cp_result = "none"
    /\ cp_owners = 0
    /\ dev_holders = {"user"}
    /\ destroy_log = <<>>

PipeIdle ==
    /\ cp_in = NoPipeInput
    /\ cp_pc = "idle"
    /\ cp_layout = "none"
    /\ cp_native = <<>>
    /\ cp_native_result = "none"
    /\ cp_result = "none"
    /\ cp_owners = 0

\* shader.layout().clone().build(device).unwrap()
PipeBuildLayout ==
    /\ cp_pc = "build_layout"
    /\ cp_native' = Append(cp_native, "CreatePipelineLayout")
    /\ IF LayoutBuildUnwrap(cp_in.build_result) = "Ok"
       THEN /\ cp_layout' = "live"
            /\ cp_pc' = "check_layout"
            /\ UNCHANGED cp_result
       ELSE /\ cp_result' = "panic"
            /\ cp_pc' = "done"
            /\ UNCHANGED cp_layout
    /\ UNCHANGED <<cp_in, cp_native_result, cp_owners, dev_vars, lock_vars, chain_vars,
                   view_vars, img_vars>>

\* The superset check; on the error return the local pipeline_layout is dropped.
PipeCheckLayout ==
    /\ cp_pc = "check_layout"
    /\ IF LayoutCheckFails(cp_in.built_desc, cp_in.shader_layout)
       THEN /\ cp_result' = "IncompatiblePipelineLayout"
            /\ cp_pc' = "done"
            /\ cp_layout' = "destroyed"
            /\ cp_native' = Append(cp_native, "DestroyPipelineLayout")
       ELSE /\ cp_pc' = "native"
            /\ UNCHANGED <<cp_result, cp_layout, cp_native>>
    /\ UNCHANGED <<cp_in, cp_native_result, cp_owners, dev_vars, lock_vars, chain_vars,
                   view_vars, img_vars>>

\* try!(check_errors(CreateComputePipelines(..))) and the construction of the
\* pipeline, which clones the device and takes the layout.  When the call fails
\* the local pipeline_layout is dropped.
PipeCreateNative ==
    /\ cp_pc = "native"
    /\ \E r \in NativePipelineResults :
         /\ cp_native_result' = r
         /\ IF r = "Success"
            THEN /\ cp_result' = "Ok"
                 /\ cp_owners' = 1
                 /\ dev_holders' = dev_holders \cup {"pipeline"}
                 /\ cp_native' = Append(cp_native, "CreateComputePipelines")
                 /\ UNCHANGED cp_layout
            ELSE /\ cp_result' = PipelineFromError(r)
                 /\ cp_layout' = "destroyed"
                 /\ cp_native' = cp_native \o <<"CreateComputePipelines", "DestroyPipelineLayout">>
                 /\ UNCHANGED <<cp_owners, dev_holders>>
    /\ cp_pc' = "done"
    /\ UNCHANGED <<cp_in, destroy_log, lock_vars, chain_vars, view_vars, img_vars>>

\* The pipeline is put in an Arc and the Arc is cloned.
PipeOwnerClone ==
    /\ cp_owners >= 1
    /\ cp_owners < MaxOwners
    /\ cp_owners' = cp_owners + 1
    /\ UNCHANGED <<cp_in, cp_pc, cp_layout, cp_native, cp_native_result, cp_result,
                   dev_vars, lock_vars, chain_vars, view_vars, img_vars>>

\* An owner goes; the last one drops the ComputePipeline: Drop for Inner runs,
\* then the fields of Inner are dropped (the Arc<Device>), then pipeline_layout.
PipeOwnerDrop ==
    /\ cp_owners >= 1
    /\ cp_owners' = cp_owners - 1
    /\ IF cp_owners = 1
       THEN /\ cp_native' = cp_native \o InnerDropCalls \o <<"DestroyPipelineLayout">>
            /\ destroy_log' = LogDestroy(destroy_log, InnerDropCalls, dev_holders)
            /\ dev_holders' = dev_holders \ {"pipeline"}
            /\ cp_layout' = "destroyed"
            /\ cp_pc' = "dropped"
       ELSE UNCHANGED <<cp_native, cp_pc, cp_layout, dev_vars>>
    /\ UNCHANGED <<cp_in, cp_native_result, cp_result, lock_vars, chain_vars, view_vars,
                   img_vars>>

PipeNext ==
    \/ PipeBuildLayout
    \/ PipeCheckLayout
    \/ PipeCreateNative
    \/ PipeOwnerClone
    \/ PipeOwnerDrop
    \/ DeviceUserDrop

(***************************************************************************)
(* image/attachment.rs: AttachmentImage::new, with_usage, transient and    *)
(* new_impl.                                                               *)
(***************************************************************************)
\* FormatTy
FormatTys == {"Float", "Uint", "Depth", "DepthStencil", "Stencil", "Compressed"}

\* The usages the model follows.
Usages ==
    [color_attachment : BOOLEAN, depth_stencil_attachment : BOOLEAN,
     transient_attachment : BOOLEAN, sampled : BOOLEAN]

\* Usage::none()
UsageNone ==
    [color_attachment |-> FALSE, depth_stencil_attachment |-> FALSE,
     transient_attachment |-> FALSE, sampled |-> FALSE]

\* The constructor called, the format and, for with_usage, the usage passed.
ImageInputs ==
    {i \in [entry : {"new", "with_usage", "transient"}, format_ty : FormatTys,
            usage_arg : Usages] :
        i.entry # "with_usage" => i.usage_arg = UsageNone}

NoImageInput == [entry |-> "none", format_ty |-> "Float", usage_arg |-> UsageNone]

NoImage ==
    [valid |-> FALSE, usage |-> UsageNone, attachment_layout |-> "none", gpu_lock |-> 0]

\* The base_usage each constructor hands to new_impl.
BaseUsage(in) ==
    IF in.entry = "new" THEN UsageNone
    ELSE IF in.entry = "with_usage" THEN in.usage_arg
    ELSE [UsageNone EXCEPT !.transient_attachment = TRUE]

\* let is_depth = match format.format().ty() { .. }
IsDepth(ty) == ty \in {"Depth", "DepthStencil", "Stencil"}

\* Usage { color_attachment: !is_depth, depth_stencil_attachment: is_depth, .. base_usage }
ImageUsageKeepsCallerBits(base, is_depth) ==
    [base EXCEPT !.color_attachment = base.color_attachment \/ ~is_depth,
                 !.depth_stencil_attachment = base.depth_stencil_attachment \/ is_depth]
ImageUsage(base, is_depth) ==
    [base EXCEPT !.color_attachment = ~is_depth, !.depth_stencil_attachment = is_depth]

\* attachment_layout: if is_depth { .. } else { .. }
AttachmentLayout(is_depth) ==
    IF is_depth THEN "DepthStencilAttachmentOptimal" ELSE "ColorAttachmentOptimal"

\* What each fallible step of new_impl can return.
StepResults == {"Ok", "Err"}

\* The locals of new_impl that exist are dropped when it returns early, in the
\* reverse order of their declaration: mem, then image.
DropLocals(live) ==
    (IF "memory" \in live THEN <<"ReleaseMemory">> ELSE <<>>)
        \o (IF "image" \in live THEN <<"DestroyImage">> ELSE <<>>)

ImgInit ==
    /\ img_in \in ImageInputs
    /\ img_pc = "format"
    /\ img_live = {}
    /\ img_native = <<>>
    /\ img_result = "none"
    /\ img_obj = NoImage

ImgIdle ==
    /\ img_in = NoImageInput
    /\ img_pc = "idle"
    /\ img_live = {}
    /\ img_native = <<>>
    /\ img_result = "none"
    /\ img_obj = NoImage

\* The match on the format type: a compressed format panics.
ImgMatchFormat ==
    /\ img_pc = "format"
    /\ IF img_in.format_ty = "Compressed"
       THEN img_result' = "panic" /\ img_pc' = "done"
       ELSE img_pc' = "image" /\ UNCHANGED img_result
    /\ UNCHANGED <<img_in, img_live, img_native, img_obj, lock_vars, chain_vars, view_vars,
                   pipe_vars, dev_vars>>

\* try!(UnsafeImage::new(..))
ImgCreateImage ==
    /\ img_pc = "image"
    /\ \E r \in StepResults :
         IF r = "Ok"
         THEN /\ img_live' = img_live \cup {"image"}
              /\ img_native' = Append(img_native, "CreateImage")
              /\ img_pc' = "alloc"
              /\ UNCHANGED img_result
         ELSE /\ img_result' = "Err(UnsafeImage::new)"
              /\ img_native' = img_native \o DropLocals(img_live)
              /\ img_live' = {}
              /\ img_pc' = "done"
    /\ UNCHANGED <<img_in, img_obj, lock_vars, chain_vars, view_vars, pipe_vars, dev_vars>>

\* try!(MemoryPool::alloc(..))
ImgAllocMemory ==
    /\ img_pc = "alloc"
    /\ \E r \in StepResults :
         IF r = "Ok"
         THEN /\ img_live' = img_live \cup {"memory"}
              /\ img_native' = Append(img_native, "AllocMemory")
              /\ img_pc' = "bind"
              /\ UNCHANGED img_result
         ELSE /\ img_result' = "Err(MemoryPool::alloc)"
              /\ img_native' = img_native \o DropLocals(img_live)
              /\ img_live' = {}
              /\ img_pc' = "done"
    /\ UNCHANGED <<img_in, img_obj, lock_vars, chain_vars, view_vars, pipe_vars, dev_vars>>

\* try!(image.bind_memory(..))
ImgBindMemory ==
    /\ img_pc = "bind"
    /\ \E r \in StepResults :
         IF r = "Ok"
         THEN /\ img_native' = Append(img_native, "BindImageMemory")
              /\ img_pc' = "view"
              /\ UNCHANGED <<img_result, img_live>>
         ELSE /\ img_result' = "Err(bind_memory)"
              /\ img_native' = img_native \o DropLocals(img_live)
              /\ img_live' = {}
              /\ img_pc' = "done"
    /\ UNCHANGED <<img_in, img_obj, lock_vars, chain_vars, view_vars, pipe_vars, dev_vars>>

\* try!(UnsafeImageView::raw(..)) and Ok(Arc::new(AttachmentImage { .. }))
ImgCreateView ==
    /\ img_pc = "view"
    /\ \E r \in StepResults :
         IF r = "Ok"
         THEN /\ img_live' = img_live \cup {"view"}
              /\ img_native' = Append(img_native, "CreateImageView")
              /\ img_obj' = [valid |-> TRUE,
                             usage |-> ImageUsage(BaseUsage(img_in), IsDepth(img_in.format_ty)),
                             attachment_layout |-> AttachmentLayout(IsDepth(img_in.format_ty)),
                             gpu_lock |-> 0]
              /\ img_result' = "Ok"
         ELSE /\ img_result' = "Err(UnsafeImageView::raw)"
              /\ img_native' = img_native \o DropLocals(img_live)
              /\ img_live' = {}
              /\ UNCHANGED img_obj
    /\ img_pc' = "done"
    /\ UNCHANGED <<img_in, lock_vars, chain_vars, view_vars, pipe_vars, dev_vars>>

ImgNext ==
    \/ ImgMatchFormat
    \/ ImgCreateImage
    \/ ImgAllocMemory
    \/ ImgBindMemory
    \/ ImgCreateView

(***************************************************************************)
(* Claims about BufferView creation (ViewSpec).                            *)
(***************************************************************************)
\* The creation has returned (or panicked).
ViewReturned == bv_result # "none"
\* The buffer declares at least one of the two texel-buffer usages.
UsageDeclared == bv_in.usage_uniform \/ bv_in.usage_storage
\* N and M of the element-count check (N is defined for a format with a size).
ViewN == NbElements(bv_in.size, bv_in.format.size)
ViewM == bv_in.limit
\* The device advertises the feature bit of every usage the buffer declares.
DeclaredBitsAdvertised ==
    /\ bv_in.usage_uniform => bv_in.features.uniform
    /\ bv_in.usage_storage => bv_in.features.storage
NativeCallsMade == {bv_native[k] : k \in 1 .. Len(bv_native)}

\* C15: for BufferView::new and BufferView::unchecked, a buffer with neither
\* uniform_texel_buffer nor storage_texel_buffer usage makes the creation fail
\* with WrongBufferUsage, whatever the format, the size of the buffer, the limit
\* and the format features of the device: the creation never goes past the
\* usage check and makes no native call.
C15_WrongUsageAlways ==
    (bv_pc # "idle" /\ ~UsageDeclared) =>
        /\ bv_pc \in {"usage", "done"}
        /\ bv_pc = "done" <=> bv_result = "WrongBufferUsage"
        /\ bv_result \in {"none", "WrongBufferUsage"}
        /\ bv_native = <<>>
\* A creation through new that failed with WrongBufferUsage although the element
\* count is over the limit and no feature bit is advertised.
C15_Witness ==
    /\ bv_result = "WrongBufferUsage"
    /\ bv_in.entry = "new"
    /\ ViewN > ViewM
    /\ bv_in.features = [uniform |-> FALSE, storage |-> FALSE, atomic |-> FALSE]

\* The outcome the order usage -> element count -> format features -> native
\* call gives for the arguments and the answer of the driver.
C16_EarliestFailure ==
    IF ~UsageDeclared THEN "WrongBufferUsage"
    ELSE IF bv_in.format.compressed THEN "panic"
    ELSE IF ViewN > ViewM THEN "MaxTexelBufferElementsExceeded"
    ELSE IF ~DeclaredBitsAdvertised THEN "UnsupportedFormat"
    ELSE IF bv_native_result # "Success" THEN "OomError"
    ELSE "Ok"
\* The usage, element-count and feature checks all pass.
C16_ThreeChecksPass ==
    /\ UsageDeclared
    /\ ~bv_in.format.compressed
    /\ ViewN <= ViewM
    /\ DeclaredBitsAdvertised
\* C16: the creation checks usage, then the element count, then the format
\* features, then calls CreateBufferView, and stops at the first failure: the
\* error returned is that of the earliest failing check, and CreateBufferView is
\* called only when the first three checks pass (and is called then).
C16_FixedOrder ==
    /\ ViewReturned => bv_result = C16_EarliestFailure
    /\ "CreateBufferView" \in NativeCallsMade => C16_ThreeChecksPass
    /\ (ViewReturned /\ C16_ThreeChecksPass) => "CreateBufferView" \in NativeCallsMade
    /\ "GetPhysicalDeviceFormatProperties" \in NativeCallsMade =>
           (UsageDeclared /\ ~bv_in.format.compressed /\ ViewN <= ViewM)
\* The element count is over the limit and the feature bit of the declared usage is
\* missing: the creation returned the error of the element-count check and never
\* queried the format.
C16_Witness ==
    /\ bv_result = "MaxTexelBufferElementsExceeded"
    /\ bv_in.usage_uniform /\ ~bv_in.features.uniform
    /\ bv_native = <<>>

DeclaredBitMissing ==
    \/ bv_in.usage_uniform /\ ~bv_in.features.uniform
    \/ bv_in.usage_storage /\ ~bv_in.features.storage
C20_AtomicQuery ==
    /\ [](bv_view.valid =>
            (StorageTexelBufferAtomic(bv_view)
                <=> (bv_in.features.atomic /\ bv_in.usage_storage)))
    /\ [][bv_view.valid => (bv_view' = bv_view /\ bv_in' = bv_in)]_vars
\* A view over a uniform-only buffer with the atomic bit advertised: the query is
\* false, and there is a second owner.
C20_Witness ==
    /\ bv_view.valid
    /\ bv_in.usage_uniform /\ ~bv_in.usage_storage
    /\ bv_in.features.atomic
    /\ ~StorageTexelBufferAtomic(bv_view)
    /\ bv_owners = 2

\* The steps of a creation, in the order of the code.
ViewSteps == <<"usage", "elements", "features", "native">>
\* What a creation returned and what the queries of the view answer.
ViewOutcome ==
    [result |-> bv_result,
     uniform |-> bv_view.valid /\ UniformTexelBuffer(bv_view),
     storage |-> bv_view.valid /\ StorageTexelBuffer(bv_view),
     atomic |-> bv_view.valid /\ StorageTexelBufferAtomic(bv_view)]
\* The outcome as a function of the buffer, the format and the state of the
\* device (and of the answer of the driver) alone: the constructor called is
\* not read.
C21_OutcomeOf(uniform, storage, size, format, limit, features, native_result) ==
    LET kind ==
          IF ~uniform /\ ~storage THEN "WrongBufferUsage"
          ELSE IF format.compressed THEN "panic"
          ELSE IF NbElements(size, format.size) > limit THEN "MaxTexelBufferElementsExceeded"
          ELSE IF (uniform /\ ~features.uniform) \/ (storage /\ ~features.storage)
               THEN "UnsupportedFormat"
          ELSE IF native_result # "Success" THEN "OomError"
          ELSE "Ok"
    IN [result |-> kind,
        uniform |-> kind = "Ok" /\ uniform,
        storage |-> kind = "Ok" /\ storage,
        atomic |-> kind = "Ok" /\ storage /\ features.atomic]
\* C21: BufferView::unchecked runs the four runtime steps (usage, element
\* count, format features, native creation), in that order up to the first
\* that fails, exactly as BufferView::new does; and what either constructor
\* returns (the error kind, or a view and the values of its queries) is the same
\* function of the buffer, the format and the state of the device.
C21_NewEqualsUnchecked ==
    ViewReturned =>
        /\ ViewOutcome = C21_OutcomeOf(bv_in.usage_uniform, bv_in.usage_storage, bv_in.size,
                                       bv_in.format, bv_in.limit, bv_in.features,
                                       bv_native_result)
        /\ Len(bv_checks) \in 1 .. 4
        /\ bv_checks = SubSeq(ViewSteps, 1, Len(bv_checks))
        /\ bv_result \in {"Ok", "OomError"} <=> Len(bv_checks) = 4
\* A view created through unchecked after the four steps ran.
C21_Witness ==
    /\ bv_in.entry = "unchecked"
    /\ bv_result = "Ok"
    /\ bv_checks = ViewSteps
    /\ bv_owners = 1

(***************************************************************************)
(* Claims about ComputePipeline::new (PipeSpec).                           *)
(***************************************************************************)
PipeReturned == cp_result # "none"
PipeNativeCalls == {cp_native[k] : k \in 1 .. Len(cp_native)}
\* The built layout lacks a binding the shader requires.
BuiltLayoutLacksBinding == \E b \in cp_in.shader_layout : b \notin cp_in.built_desc

C25_OnlyOomMapped ==
    cp_native_result # "none" =>
        /\ cp_result = "OomError"
              <=> cp_native_result \in {"OutOfHostMemory", "OutOfDeviceMemory"}
        /\ cp_result = "panic"
              <=> cp_native_result \notin {"Success", "OutOfHostMemory", "OutOfDeviceMemory"}
        /\ cp_result = "Ok" <=> cp_native_result = "Success"
\* The driver answered DeviceLost: the construction panicked.
C25_Witness ==
    /\ cp_native_result = "DeviceLost"
    /\ cp_result = "panic"
    /\ cp_owners = 0

\* C26: a resource exhaustion at any step of ComputePipeline::new, the build of
\* the pipeline layout included, comes back as an error value and never as an
\* abort of the caller.
C26_ExhaustionIsReturned ==
    ( /\ PipeReturned
      /\ \/ cp_in.build_result \in {"Err(OutOfHostMemory)", "Err(OutOfDeviceMemory)"}
         \/ cp_native_result \in {"OutOfHostMemory", "OutOfDeviceMemory"} )
    => cp_result = "OomError"

(***************************************************************************)
(* Claims about the creation and destruction of objects (ObjectSpec).      *)
(***************************************************************************)
\* Number of occurrences of the call c in the sequence of calls s.
CountCalls(s, c) == Cardinality({k \in 1 .. Len(s) : s[k] = c})

\* C22: for a created BufferView and a created ComputePipeline, the native
\* destroy call of the handle (DestroyBufferView, DestroyPipeline) is issued
\* exactly once: none while an owner is left, one from the drop of the last owner
\* on, none for an object that was not created; and at each of these calls the
\* device is alive.
C22_DestroyedOnce ==
    /\ CountCalls(bv_native, "DestroyBufferView")
          = (IF bv_result = "Ok" /\ bv_owners = 0 THEN 1 ELSE 0)
    /\ CountCalls(cp_native, "DestroyPipeline")
          = (IF cp_result = "Ok" /\ cp_owners = 0 THEN 1 ELSE 0)
    /\ Len(destroy_log)
          = CountCalls(bv_native, "DestroyBufferView") + CountCalls(cp_native, "DestroyPipeline")
    /\ \A k \in 1 .. Len(destroy_log) : destroy_log[k].device_alive
    /\ bv_result = "Ok" => CountCalls(bv_native, "CreateBufferView") = 1
    /\ cp_result = "Ok" => CountCalls(cp_native, "CreateComputePipelines") = 1
\* A pipeline whose last owner was dropped after everyone else had let go of the
\* device: one DestroyPipeline, made while the pipeline still held the device.
C22_Witness ==
    /\ cp_result = "Ok"
    /\ cp_owners = 0
    /\ dev_holders = {}
    /\ destroy_log = <<[call |-> "DestroyPipeline", device_alive |-> TRUE]>>
    /\ cp_native[Len(cp_native)] = "DestroyPipelineLayout"

\* A creation attempt failed at one of its steps.
ViewAttemptFailed ==
    bv_result \in {"WrongBufferUsage", "MaxTexelBufferElementsExceeded", "UnsupportedFormat",
                   "OomError"}
PipeAttemptFailed ==
    /\ PipeReturned
    /\ \/ cp_in.build_result # "Ok"
       \/ cp_result = "IncompatiblePipelineLayout"
       \/ cp_native_result \in {"OutOfHostMemory", "OutOfDeviceMemory"}
ImgAttemptFailed ==
    /\ img_result # "none"
    /\ img_result # "Ok"
    /\ img_in.format_ty # "Compressed"
ImgNativeCalls == {img_native[k] : k \in 1 .. Len(img_native)}
\* C23: when a creation attempt of an AttachmentImage, a BufferView or a
\* ComputePipeline fails at a step, an error is returned, no object is returned,
\* no destroy call is made for an object that was not created, and every
\* sub-object created in the attempt has been released.
C23_FailureLeavesNothing ==
    /\ ViewAttemptFailed =>
          /\ ~bv_view.valid /\ bv_owners = 0
          /\ "DestroyBufferView" \notin NativeCallsMade
    /\ PipeAttemptFailed =>
          /\ cp_result \in {"OomError", "IncompatiblePipelineLayout"}
          /\ cp_owners = 0
          /\ "DestroyPipeline" \notin PipeNativeCalls
          /\ cp_layout # "live"
          /\ cp_layout = "none" => "DestroyPipelineLayout" \notin PipeNativeCalls
    /\ ImgAttemptFailed =>
          /\ ~img_obj.valid
          /\ img_live = {}
          /\ CountCalls(img_native, "DestroyImage") = CountCalls(img_native, "CreateImage")
          /\ CountCalls(img_native, "ReleaseMemory") = CountCalls(img_native, "AllocMemory")
          /\ "CreateImageView" \notin ImgNativeCalls

ChainIdle ==
    /\ layers = <<>>
    /\ inner_device = "none"
    /\ recorded = <<>>
    /\ chain_status = "idle"
    /\ last_add = NoAdd
    /\ build_result = "none"
    /\ inner_result = "none"
    /\ ctor_layers = <<>>
    /\ receiver_uses = 0

\* The image alone: no builder chain.
LockStart == LockInit /\ ChainIdle /\ ViewIdle /\ PipeIdle /\ ImgIdle /\ DevIdle
\* A builder chain alone: no wrapper over the image.
ChainStart == ChainInit /\ LockIdle /\ ViewIdle /\ PipeIdle /\ ImgIdle /\ DevIdle
\* One creation of a BufferView alone.
ViewStart == ViewInit /\ LockIdle /\ ChainIdle /\ PipeIdle /\ ImgIdle
\* One creation of a ComputePipeline alone.
PipeStart == PipeInit /\ LockIdle /\ ChainIdle /\ ViewIdle /\ ImgIdle
ImgStart == ImgInit /\ LockIdle /\ ChainIdle /\ ViewIdle /\ PipeIdle /\ DevIdle
\* One creation of a BufferView, of a ComputePipeline or of an AttachmentImage.
ObjectStart ==
    /\ LockIdle /\ ChainIdle
    /\ \/ ViewInit /\ PipeIdle /\ ImgIdle
       \/ PipeInit /\ ViewIdle /\ ImgIdle
       \/ ImgInit /\ ViewIdle /\ PipeIdle /\ DevIdle

LockSpec == LockStart /\ [][LockNext]_vars
LockSpecNoClone == LockStart /\ [][LockNextNoClone]_vars
ChainSpec == ChainStart /\ [][ChainNext]_vars
ViewSpec == ViewStart /\ [][ViewNext]_vars
PipeSpec == PipeStart /\ [][PipeNext]_vars
ImgSpec == ImgStart /\ [][ImgNext]_vars
ObjectNext == ViewNext \/ PipeNext \/ ImgNext
ObjectSpec == ObjectStart /\ [][ObjectNext]_vars

=============================================================================
